---- MODULE Spec2Model ----
(***************************************************************************)
(* A model of the lz_fnv crate (src/src/lib.rs): the Fowler-Noll-Vo hash   *)
(* accumulators Fnv0<T>, Fnv1<T> and Fnv1a<T> for T in {u32, u64, u128}.   *)
(*                                                                         *)
(* TLC's integers are 32 bits wide, so a value of type uW is kept as its   *)
(* W/8 bytes, least significant first (a "word"), and the integer          *)
(* operations the code uses (wrapping_mul, ^, u8 -> uW conversion) are     *)
(* written out on that representation.                                     *)
(***************************************************************************)
EXTENDS Integers, Sequences, FiniteSets, TLC

VARIABLES
    variant,    \* which struct this accumulator is: "Fnv0", "Fnv1" or "Fnv1a"
    width,      \* the bit width of its type parameter T: 32, 64 or 128
    hash,       \* the struct's only field, `hash: T`
    ctor,       \* history: the constructor call that made the accumulator
    init,       \* history: the value of `hash` when the constructor returned
    written,    \* history: all bytes passed to write so far, in call order
    last,       \* history: <<bytes>> for the latest write call's argument, NoWrite if none
    rets        \* history: values returned by the finish calls since the latest write

vars == <<variant, width, hash, ctor, init, written, last, rets>>

(***************************************************************************)
(* Bounds of the model.                                                    *)
(***************************************************************************)
\* the total number of bytes written to one accumulator
MaxWritten == 3
\* the number of finish calls recorded between two write calls
MaxFinish == 2
\* the chunk size used when the offset-basis string is fed in pieces
BasisStep == 16

\* the byte values write is fed: zero, and a byte with every bit set
Bytes == {0, 255}

Variants == {"Fnv0", "Fnv1", "Fnv1a"}
Widths == {32, 64, 128}

(***************************************************************************)
(* Words: unsigned W-bit integers as W/8 bytes, least significant first.   *)
(***************************************************************************)
Limbs(w) == w \div 8

IsWord(x, w) ==
    /\ DOMAIN x = 1..Limbs(w)
    /\ \A i \in 1..Limbs(w) : x[i] \in 0..255

\* T::default() for an unsigned integer type: zero
Default(w) == [i \in 1..Limbs(w) |-> 0]

\* the largest value of the type
MaxWord(w) == [i \in 1..Limbs(w) |-> 255]

RECURSIVE Reverse(_)
Reverse(s) == IF s = <<>> THEN <<>> ELSE Append(Reverse(Tail(s)), Head(s))

RECURSIVE GroupBytes(_)
\* the bytes, most significant first, of a literal given as its 4-hex-digit groups
GroupBytes(groups) ==
    IF groups = <<>> THEN <<>>
    ELSE <<Head(groups) \div 256, Head(groups) % 256>> \o GroupBytes(Tail(groups))

\* An integer literal of the source, written as in the source in groups of four
\* hex digits (0x811c_9dc5 is <<\h811c, \h9dc5>>), typed as a W-bit integer.
Literal(groups, w) ==
    LET le == Reverse(GroupBytes(groups))
    IN  [i \in 1..Limbs(w) |-> IF i <= Len(le) THEN le[i] ELSE 0]

RECURSIVE BitXor(_, _)
\* a ^ b on non-negative integers
BitXor(a, b) ==
    IF a = 0 THEN b
    ELSE IF b = 0 THEN a
    ELSE ((a + b) % 2) + 2 * BitXor(a \div 2, b \div 2)

RECURSIVE XorFrom(_, _, _)
\* bytes i..Len(a) of a ^ b
XorFrom(a, b, i) ==
    IF i > Len(a) THEN <<>> ELSE <<BitXor(a[i], b[i])>> \o XorFrom(a, b, i + 1)

\* a ^ b on words of the same width
WordXor(a, b) == XorFrom(a, b, 1)

RECURSIVE ColumnSum(_, _, _, _)
\* the sum of a[i] * b[k + 1 - i] for i in 1..j: column k of the long multiplication
ColumnSum(a, b, k, j) ==
    IF j = 0 THEN 0 ELSE a[j] * b[k + 1 - j] + ColumnSum(a, b, k, j - 1)

RECURSIVE MulFrom(_, _, _, _)
\* bytes k..Len(a) of the product a * b, given the carry into column k; the
\* carry out of the last column is dropped
MulFrom(a, b, k, carry) ==
    IF k > Len(a) THEN <<>>
    ELSE LET s == ColumnSum(a, b, k, k) + carry
         IN  <<s % 256>> \o MulFrom(a, b, k + 1, s \div 256)

RECURSIVE MulCarry(_, _, _, _)
\* TRUE iff a * b does not fit the width: a carry out of the last column, or a
\* non-zero partial product beyond it
MulCarry(a, b, k, carry) ==
    IF k > Len(a)
    THEN \/ carry # 0
         \/ \E i, j \in 1..Len(a) : i + j - 1 > Len(a) /\ a[i] * b[j] # 0
    ELSE MulCarry(a, b, k + 1, (ColumnSum(a, b, k, k) + carry) \div 256)

\* uW::saturating_mul: the product, or the largest value when it does not fit
saturating_mul(a, b) ==
    IF MulCarry(a, b, 1, 0) THEN [i \in 1..Len(a) |-> 255] ELSE MulFrom(a, b, 1, 0)

\* uW::wrapping_mul: the product modulo 2^W
wrapping_mul(a, b) == MulFrom(a, b, 1, 0)

\* u8 -> uW `into()`: zero extension
ZeroExtend(byte, w) == [i \in 1..Limbs(w) |-> IF i = 1 THEN byte ELSE 0]

u32_from_byte(byte) == ZeroExtend(byte, 32)
u64_from_byte(byte) == ZeroExtend(byte, 64)
u128_from_byte(byte) == ZeroExtend(byte, 128)

(***************************************************************************)
(* The constants of the three fnv_impl! instantiations.                    *)
(***************************************************************************)
U32_OFFSET == Literal(<<\h811c, \h9dc5>>, 32)
\* a mistyped 32-bit prime (0x100_0183 for 0x100_0193)
U32_PRIME_typo == Literal(<<\h100, \h0183>>, 32)

U32_PRIME == Literal(<<\h100, \h0193>>, 32)

U64_OFFSET == Literal(<<\hcbf2, \h9ce4, \h8422, \h2325>>, 64)
U64_PRIME == Literal(<<\h100, \h0000, \h01B3>>, 64)

U128_OFFSET ==
    Literal(<<\h6C62, \h272E, \h07BB, \h0142, \h62B8, \h2175, \h6295, \hC58D>>, 128)

\* the 128-bit prime with one hex digit too many after the leading 1: 2^92 + 0x13B
U128_PRIME_shifted ==
    Literal(<<\h0000, \h0001, \h0000, \h0000, \h0000, \h0000, \h0000, \h013B>>, 128)

U128_PRIME ==
    Literal(<<\h0000, \h0000, \h0100, \h0000, \h0000, \h0000, \h0000, \h013B>>, 128)

\* $offset, $prime and $from_byte of the instantiation for the W-bit type
OFFSET(w) == CASE w = 32 -> U32_OFFSET [] w = 64 -> U64_OFFSET [] w = 128 -> U128_OFFSET
PRIME(w) == CASE w = 32 -> U32_PRIME [] w = 64 -> U64_PRIME [] w = 128 -> U128_PRIME
from_byte(w, byte) ==
    CASE w = 32 -> u32_from_byte(byte)
      [] w = 64 -> u64_from_byte(byte)
      [] w = 128 -> u128_from_byte(byte)

(***************************************************************************)
(* Constructors.  An accumulator is the record [hash |-> word].            *)
(***************************************************************************)
\* Fnv0::new(): Self::default(), the derived Default
Fnv0_new(w) == [hash |-> Default(w)]
\* Fnv1::new(): Self::default(), which is Self { hash: $offset }
Fnv1_new(w) == [hash |-> OFFSET(w)]
\* Fnv1a::new(): Self::default(), which is Self { hash: $offset }
Fnv1a_new(w) == [hash |-> OFFSET(w)]

Fnv0_with_key(key) == [hash |-> key]
Fnv1_with_key(key) == [hash |-> key]
\* with_key that drops its argument and starts from zero
Fnv1a_with_key_dropped(key) == [hash |-> [i \in DOMAIN key |-> 0]]

Fnv1a_with_key(key) == [hash |-> key]

new(v, w) ==
    CASE v = "Fnv0" -> Fnv0_new(w) [] v = "Fnv1" -> Fnv1_new(w) [] v = "Fnv1a" -> Fnv1a_new(w)

with_key(v, key) ==
    CASE v = "Fnv0" -> Fnv0_with_key(key)
      [] v = "Fnv1" -> Fnv1_with_key(key)
      [] v = "Fnv1a" -> Fnv1a_with_key(key)

(***************************************************************************)
(* FnvHasher::finish and FnvHasher::write.  Each gives the accumulator     *)
(* after the call; finish also gives the value returned.                   *)
(***************************************************************************)
\* finish that takes the hash out of the accumulator, leaving zero behind
fnv0_finish_take(self) ==
    [self |-> [hash |-> [i \in DOMAIN self.hash |-> 0]], ret |-> self.hash]

fnv0_finish(self) == [self |-> self, ret |-> self.hash]
fnv1_finish(self) == [self |-> self, ret |-> self.hash]
fnv1a_finish(self) == [self |-> self, ret |-> self.hash]

\* TLC computes an operator's argument when it is first used, which for the local
\* `hash` of a loop is after the last iteration, one nested evaluation per byte.
\* Evaluated(x) uses x, so that each iteration's value is computed before the next.
Evaluated(x) == Len(x) >= 0

RECURSIVE loop_xor_first(_, _, _, _)
\* a loop over the bytes whose body xors the byte in, then multiplies
loop_xor_first(w, h, bytes, i) ==
    IF i > Len(bytes) THEN h
    ELSE LET xored == WordXor(h, from_byte(w, bytes[i]))
             multiplied == wrapping_mul(xored, PRIME(w))
         IN  IF Evaluated(multiplied) THEN loop_xor_first(w, multiplied, bytes, i + 1) ELSE multiplied

RECURSIVE loop_mul_first(_, _, _, _)
\* a loop over the bytes whose body multiplies, then xors the byte in
loop_mul_first(w, h, bytes, i) ==
    IF i > Len(bytes) THEN h
    ELSE LET multiplied == wrapping_mul(h, PRIME(w))
             xored == WordXor(multiplied, from_byte(w, bytes[i]))
         IN  IF Evaluated(xored) THEN loop_mul_first(w, xored, bytes, i + 1) ELSE xored

RECURSIVE fnv0_loop(_, _, _, _)
\* fnv0_impl!: `for byte in bytes { hash = hash.wrapping_mul($prime);
\* hash ^= ($from_byte)(*byte); }` from the i-th byte on, h being the local `hash`
fnv0_loop(w, h, bytes, i) ==
    IF i > Len(bytes) THEN h
    ELSE LET multiplied == wrapping_mul(h, PRIME(w))
             xored == WordXor(multiplied, from_byte(w, bytes[i]))
         IN  IF Evaluated(xored) THEN fnv0_loop(w, xored, bytes, i + 1) ELSE xored

\* fnv0 write with the two statements of the loop body exchanged
fnv0_write_xor_first(w, self, bytes) == [hash |-> loop_xor_first(w, self.hash, bytes, 1)]

\* fnv0 write with a closing multiplication after the loop
fnv0_write_final_mul(w, self, bytes) ==
    [hash |-> wrapping_mul(fnv0_loop(w, self.hash, bytes, 1), PRIME(w))]

\* fnv0_impl!: `let mut hash = self.hash;`, the loop, `self.hash = hash;`
fnv0_write(w, self, bytes) == [hash |-> fnv0_loop(w, self.hash, bytes, 1)]

RECURSIVE fnv1_loop(_, _, _, _)
\* fnv1_impl!: `for byte in bytes { hash = hash.wrapping_mul($prime);
\* hash ^= ($from_byte)(*byte); }` from the i-th byte on
fnv1_loop(w, h, bytes, i) ==
    IF i > Len(bytes) THEN h
    ELSE LET multiplied == wrapping_mul(h, PRIME(w))
             xored == WordXor(multiplied, from_byte(w, bytes[i]))
         IN  IF Evaluated(xored) THEN fnv1_loop(w, xored, bytes, i + 1) ELSE xored

\* fnv1 write with the two statements of the loop body exchanged
fnv1_write_xor_first(w, self, bytes) == [hash |-> loop_xor_first(w, self.hash, bytes, 1)]

\* fnv1_impl!: `let mut hash = self.hash;`, the loop, `self.hash = hash;`
fnv1_write(w, self, bytes) == [hash |-> fnv1_loop(w, self.hash, bytes, 1)]

RECURSIVE fnv1a_loop(_, _, _, _)
\* fnv1a_impl!: `for byte in bytes { hash ^= ($from_byte)(*byte);
\* hash = hash.wrapping_mul($prime); }` from the i-th byte on
fnv1a_loop(w, h, bytes, i) ==
    IF i > Len(bytes) THEN h
    ELSE LET xored == WordXor(h, from_byte(w, bytes[i]))
             multiplied == wrapping_mul(xored, PRIME(w))
         IN  IF Evaluated(multiplied) THEN fnv1a_loop(w, multiplied, bytes, i + 1) ELSE multiplied

\* fnv1a write with the two statements of the loop body exchanged
fnv1a_write_mul_first(w, self, bytes) == [hash |-> loop_mul_first(w, self.hash, bytes, 1)]

\* fnv1a write whose local `hash` starts from $offset instead of self.hash
fnv1a_write_restart(w, self, bytes) == [hash |-> fnv1a_loop(w, OFFSET(w), bytes, 1)]

\* fnv1a_impl!: `let mut hash = self.hash;`, the loop, `self.hash = hash;`
fnv1a_write(w, self, bytes) == [hash |-> fnv1a_loop(w, self.hash, bytes, 1)]

\* the impl of FnvHasher chosen by the accumulator's type
finish(v, self) ==
    CASE v = "Fnv0" -> fnv0_finish(self)
      [] v = "Fnv1" -> fnv1_finish(self)
      [] v = "Fnv1a" -> fnv1a_finish(self)

write(v, w, self, bytes) ==
    CASE v = "Fnv0" -> fnv0_write(w, self, bytes)
      [] v = "Fnv1" -> fnv1_write(w, self, bytes)
      [] v = "Fnv1a" -> fnv1a_write(w, self, bytes)

(***************************************************************************)
(* The state machine: one accumulator, made by new() or with_key(k), then  *)
(* any interleaving of write and finish calls.                             *)
(***************************************************************************)
NoWrite == <<>>
NoKey == <<>>

\* the byte sequences of length at most n over Bytes
RECURSIVE SeqsUpTo(_)
SeqsUpTo(n) ==
    IF n = 0 THEN {<<>>}
    ELSE LET shorter == SeqsUpTo(n - 1)
         IN  shorter \cup {Append(s, b) : s \in {t \in shorter : Len(t) = n - 1}, b \in Bytes}

\* the keys with_key is given: the one of the doc examples (872), and the largest
Keys == [w \in Widths |-> {Literal(<<872>>, w), MaxWord(w)}]

\* an accumulator as a constructor returns it, with_key's argument drawn from keys[width]
Constructed(keys) ==
    /\ variant \in Variants
    /\ width \in Widths
    /\ \/ /\ ctor = [kind |-> "new", key |-> NoKey]
          /\ hash = new(variant, width).hash
       \/ \E key \in keys[width] :
            /\ ctor = [kind |-> "with_key", key |-> key]
            /\ hash = with_key(variant, key).hash
    /\ init = hash
    /\ written = <<>>
    /\ last = NoWrite
    /\ rets = <<>>

Init == Constructed(Keys)

Write(bytes) ==
    /\ hash' = write(variant, width, [hash |-> hash], bytes).hash
    /\ written' = written \o bytes
    /\ last' = <<bytes>>
    /\ rets' = <<>>
    /\ UNCHANGED <<variant, width, ctor, init>>

Finish ==
    /\ Len(rets) < MaxFinish
    /\ LET r == finish(variant, [hash |-> hash])
       IN  /\ hash' = r.self.hash
           /\ rets' = Append(rets, r.ret)
    /\ UNCHANGED <<variant, width, ctor, init, written, last>>

WriteInput == \E bytes \in SeqsUpTo(MaxWritten - Len(written)) : Write(bytes)

Next == WriteInput \/ Finish

Spec == Init /\ [][Next]_vars

(***************************************************************************)
(* The offset-basis calculation of the test fnv0_offset_calculation_128_bit,*)
(* for every width and variant: the accumulators are fed the test's input, *)
(* whole or in pieces of BasisStep bytes.                                  *)
(***************************************************************************)
\* b"chongo <Landon Curt Noll> /\\../\\"
BasisString ==
    <<99, 104, 111, 110, 103, 111, 32, 60, 76, 97, 110, 100, 111, 110, 32, 67,
      117, 114, 116, 32, 78, 111, 108, 108, 62, 32, 47, 92, 46, 46, 47, 92>>

\* the keys with_key is given here: zero, and the one of the doc examples
BasisKeys == [w \in Widths |-> {Default(w), Literal(<<872>>, w)}]

BasisInit == Constructed(BasisKeys)

WriteBasis ==
    \E n \in {BasisStep, Len(BasisString) - Len(written)} :
        /\ Len(written) + n <= Len(BasisString)
        /\ Write(SubSeq(BasisString, Len(written) + 1, Len(written) + n))

BasisNext == WriteBasis \/ Finish

SpecBasis == BasisInit /\ [][BasisNext]_vars

(***************************************************************************)
(* Every one-byte input: a fresh accumulator is written one byte, of any   *)
(* value.                                                                  *)
(***************************************************************************)
WriteOneByte ==
    /\ last = NoWrite
    /\ \E b \in 0..255 : Write(<<b>>)

OneByteNext == WriteOneByte \/ Finish

SpecOneByte == Init /\ [][OneByteNext]_vars

(***************************************************************************)
(* Arithmetic on natural numbers of any size, for stating what the hash    *)
(* must be: a number is its bytes, least significant first, with no        *)
(* leading zero byte.                                                      *)
(***************************************************************************)
Digit(x, i) == IF i <= Len(x) THEN x[i] ELSE 0

RECURSIVE Trim(_)
Trim(x) == IF x # <<>> /\ x[Len(x)] = 0 THEN Trim(SubSeq(x, 1, Len(x) - 1)) ELSE x

RECURSIVE ScaleFrom(_, _, _, _)
\* bytes i.. of x * d for a single byte d, given the carry into byte i
ScaleFrom(x, d, i, carry) ==
    IF i > Len(x) THEN <<carry>>
    ELSE LET s == x[i] * d + carry
         IN  <<s % 256>> \o ScaleFrom(x, d, i + 1, s \div 256)

RECURSIVE AddFrom(_, _, _, _)
\* bytes i.. of x + y, given the carry into byte i
AddFrom(x, y, i, carry) ==
    IF i > Len(x) /\ i > Len(y) THEN <<carry>>
    ELSE LET s == Digit(x, i) + Digit(y, i) + carry
         IN  <<s % 256>> \o AddFrom(x, y, i + 1, s \div 256)

RECURSIVE RowsFrom(_, _, _)
\* the sum over k >= j of x * y[k] * 256^(k-1)
RowsFrom(x, y, j) ==
    IF j > Len(y) THEN <<>>
    ELSE IF y[j] = 0 THEN RowsFrom(x, y, j + 1)
    ELSE AddFrom([i \in 1..(j - 1) |-> 0] \o ScaleFrom(x, y[j], 1, 0),
                 RowsFrom(x, y, j + 1), 1, 0)

\* x * y, exactly
NatMul(x, y) == Trim(RowsFrom(x, y, 1))

\* x XOR b for a byte b zero-extended to any width: only the lowest byte changes
NatXorByte(x, b) == Trim(<<BitXor(Digit(x, 1), b)>> \o SubSeq(x, 2, Len(x)))

\* x mod 2^w, as a word
ModPow2(x, w) == SubSeq(x \o [i \in 1..Limbs(w) |-> 0], 1, Limbs(w))

RECURSIVE HexBytes(_)
\* the bytes, least significant first, of hex digits given least significant first
HexBytes(d) ==
    IF d = <<>> THEN <<>>
    ELSE IF Len(d) = 1 THEN <<d[1]>>
    ELSE <<d[1] + 16 * d[2]>> \o HexBytes(SubSeq(d, 3, Len(d)))

\* the number written by a sequence of hex digits, most significant first
Hex(digits) == Trim(HexBytes(Reverse(digits)))

Front(s) == SubSeq(s, 1, Len(s) - 1)
Final(s) == s[Len(s)]

RECURSIVE XorMulFold(_, _, _, _)
\* the bytes of s folded left to right with h := ((h XOR b) * p) mod 2^w
XorMulFold(w, p, h, s) ==
    IF s = <<>> THEN h
    ELSE LET before == XorMulFold(w, p, h, Front(s))
         IN  IF Evaluated(before)
             THEN ModPow2(NatMul(NatXorByte(before, Final(s)), p), w)
             ELSE before

RECURSIVE MulXorFold(_, _, _, _)
\* the bytes of s folded left to right with h := ((h * p) mod 2^w) XOR b
MulXorFold(w, p, h, s) ==
    IF s = <<>> THEN h
    ELSE LET before == MulXorFold(w, p, h, Front(s))
         IN  IF Evaluated(before)
             THEN ModPow2(NatXorByte(ModPow2(NatMul(before, p), w), Final(s)), w)
             ELSE before

\* the fold of the variant: FNV-1a xors first, FNV-0 and FNV-1 multiply first
Fold(v, w, p, h, s) ==
    IF v = "Fnv1a" THEN XorMulFold(w, p, h, s) ELSE MulXorFold(w, p, h, s)

RECURSIVE ExactFold(_, _, _, _)
\* the same folds with no reduction at all: the exact, unbounded result
ExactFold(v, p, h, s) ==
    IF s = <<>> THEN Trim(h)
    ELSE LET before == ExactFold(v, p, h, Front(s))
         IN  IF ~Evaluated(before) THEN before
             ELSE IF v = "Fnv1a" THEN NatMul(NatXorByte(before, Final(s)), p)
             ELSE NatXorByte(NatMul(before, p), Final(s))

\* the offset bases as the specification's table of constants writes them
TableOffset32 == Hex(
    <<\h8, \h1, \h1, \hc, \h9, \hd, \hc, \h5>>)
TableOffset64 == Hex(
    <<\hc, \hb, \hf, \h2, \h9, \hc, \he, \h4, \h8, \h4, \h2, \h2, \h2, \h3, \h2, \h5>>)
TableOffset128 == Hex(
    <<\h6, \hc, \h6, \h2, \h2, \h7, \h2, \he, \h0, \h7, \hb, \hb, \h0, \h1, \h4, \h2,
      \h6, \h2, \hb, \h8, \h2, \h1, \h7, \h5, \h6, \h2, \h9, \h5, \hc, \h5, \h8, \hd>>)

TableOffset(w) ==
    CASE w = 32 -> TableOffset32 [] w = 64 -> TableOffset64 [] w = 128 -> TableOffset128

\* the primes as the specification's table of constants writes them
TablePrime32 == Hex(
    <<\h0, \h1, \h0, \h0, \h0, \h1, \h9, \h3>>)
TablePrime64 == Hex(
    <<\h1, \h0, \h0, \h0, \h0, \h0, \h0, \h0, \h1, \hb, \h3>>)
\* `0000000001000000 0000000000000013b`: 33 hex digits
TablePrime128 == Hex(
    <<\h0, \h0, \h0, \h0, \h0, \h0, \h0, \h0, \h0, \h1, \h0, \h0, \h0, \h0, \h0, \h0,
      \h0, \h0, \h0, \h0, \h0, \h0, \h0, \h0, \h0, \h0, \h0, \h0, \h0, \h0, \h1, \h3,
      \hb>>)
\* 0000000001000000000000000000013b: 32 hex digits, 2^88 + 0x13b
FnvPrime128 == Hex(
    <<\h0, \h0, \h0, \h0, \h0, \h0, \h0, \h0, \h0, \h1, \h0, \h0, \h0, \h0, \h0, \h0,
      \h0, \h0, \h0, \h0, \h0, \h0, \h0, \h0, \h0, \h0, \h0, \h0, \h0, \h1, \h3, \hb>>)

TablePrime(w) ==
    CASE w = 32 -> TablePrime32 [] w = 64 -> TablePrime64 [] w = 128 -> TablePrime128

\* the table's primes with the 128-bit one of 32 digits
FnvPrime(w) ==
    CASE w = 32 -> TablePrime32 [] w = 64 -> TablePrime64 [] w = 128 -> FnvPrime128

\* the hash one write call of all the bytes written so far gives, from the
\* value the constructor left
OneWrite == write(variant, width, [hash |-> init], written).hash

\* the initial value the constructor call is to give
InitialValue ==
    IF ctor.kind = "with_key" THEN ctor.key
    ELSE IF variant = "Fnv0" THEN ModPow2(<<>>, width)
    ELSE ModPow2(TableOffset(width), width)

\* the step appends a value to rets: a finish call
FinishStep == Len(rets') = Len(rets) + 1

\* the step is a write call with an empty argument (a finish call appends to rets)
EmptyWriteStep == last' = <<<<>>>> /\ rets' = <<>>

(***************************************************************************)
(* The claims.                                                             *)
(***************************************************************************)

\* C1: however the bytes written so far were split over write calls (empty
\* calls included), the hash is the one a single write of their concatenation
\* gives an accumulator with the same initial value.
C1_SplitWritesAsOneWrite == hash = OneWrite

\* C1 witness: the latest of several write calls wrote a non-empty part of the
\* bytes, an earlier one the non-empty rest, and finish has returned since.
C1_Witness ==
    /\ last # NoWrite
    /\ Len(last[1]) > 0
    /\ Len(last[1]) < Len(written)
    /\ \E i \in DOMAIN written : written[i] # 0
    /\ rets # <<>>

\* C2: an Fnv1a accumulator's hash is the left-to-right fold of the bytes
\* written with h := ((h XOR b) * PRIME_W) mod 2^W, from its initial value.
C2_Fnv1aXorThenMultiply ==
    variant = "Fnv1a" => hash = XorMulFold(width, Trim(PRIME(width)), init, written)

\* C2 witness: an Fnv1a accumulator after two or more bytes, not all zero.
C2_Witness ==
    /\ variant = "Fnv1a"
    /\ Len(written) >= 2
    /\ written[1] # 0
    /\ hash # init

\* C3: an Fnv0 or Fnv1 accumulator's hash is the left-to-right fold of the bytes
\* written with h := ((h * PRIME_W) mod 2^W) XOR b, from its initial value; so
\* Fnv0::with_key(k) and Fnv1::with_key(k) fed the same bytes have the same hash.
C3_Fnv0Fnv1MultiplyThenXor ==
    variant \in {"Fnv0", "Fnv1"} =>
        /\ hash = MulXorFold(width, Trim(PRIME(width)), init, written)
        /\ hash = fnv0_write(width, Fnv0_with_key(init), written).hash
        /\ hash = fnv1_write(width, Fnv1_with_key(init), written).hash

\* C3 witness: an Fnv0 accumulator made by with_key, after two or more bytes.
C3_Witness ==
    /\ variant = "Fnv0"
    /\ ctor.kind = "with_key"
    /\ Len(written) >= 2
    /\ written[1] # 0
    /\ hash # init

\* what the accumulator of the other order, made by new(), has after the same bytes
OtherOrderHash ==
    IF variant = "Fnv1"
    THEN fnv1a_write(width, Fnv1a_new(width), written).hash
    ELSE fnv1_write(width, Fnv1_new(width), written).hash

\* C4 as claimed: after any non-empty input, Fnv1::new() and Fnv1a::new() hold
\* different hashes.
C4_OrdersAlwaysDiffer ==
    (variant \in {"Fnv1", "Fnv1a"} /\ ctor.kind = "new" /\ written # <<>>) =>
        hash # OtherOrderHash

\* C4 as amended: after a one-byte input [b], Fnv1::new() and Fnv1a::new() hold
\* different hashes exactly when b is not zero.
C4_OrdersDifferOnNonZeroByte ==
    (variant \in {"Fnv1", "Fnv1a"} /\ ctor.kind = "new" /\ Len(written) = 1) =>
        ((hash # OtherOrderHash) <=> (written[1] # 0))

\* C4 witness: Fnv1::new() after one non-zero byte, differing from Fnv1a.
C4_Witness ==
    /\ variant = "Fnv1"
    /\ ctor.kind = "new"
    /\ Len(written) = 1
    /\ written[1] # 0
    /\ hash # OtherOrderHash

\* C5: an Fnv0 accumulator that started from zero and was fed the 32 bytes of
\* the offset-basis string holds the offset basis of its width, as the table
\* gives it and as Fnv1::new() and Fnv1a::new() start from; finish returns it.
C5_Fnv0OfBasisStringIsOffsetBasis ==
    (variant = "Fnv0" /\ init = ModPow2(<<>>, width) /\ written = BasisString) =>
        /\ hash = ModPow2(TableOffset(width), width)
        /\ hash = Fnv1_new(width).hash
        /\ hash = Fnv1a_new(width).hash
        /\ \A i \in DOMAIN rets : rets[i] = hash

\* C5 witness: Fnv0::<u128>::new() after one write of the whole string, which
\* has 32 bytes and ends in / \ . . / \, and a finish call.
C5_Witness ==
    /\ variant = "Fnv0"
    /\ width = 128
    /\ ctor.kind = "new"
    /\ last = <<BasisString>>
    /\ written = BasisString
    /\ Len(written) = 32
    /\ SubSeq(written, 27, 32) = <<47, 92, 46, 46, 47, 92>>
    /\ rets # <<>>

\* C6: before any write call the hash, and what finish returns, is the table's
\* offset basis for Fnv1::new() and Fnv1a::new(), zero for Fnv0::new(), and k
\* for with_key(k).
C6_ConstructorsSetInitialHash ==
    last = NoWrite =>
        /\ hash = InitialValue
        /\ \A i \in DOMAIN rets : rets[i] = InitialValue

\* C6 witness: an accumulator made by with_key on which finish, but not write,
\* has been called.
C6_Witness ==
    /\ last = NoWrite
    /\ ctor.kind = "with_key"
    /\ ctor.key # ModPow2(<<>>, width)
    /\ rets # <<>>

\* C7 as claimed: the hash is the variant's fold of the bytes written with the
\* prime of the specification's table, the 128-bit one read as its 33 digits.
C7_PrimeAsInTable ==
    hash = Fold(variant, width, TablePrime(width), init, written)

\* C7 as amended: the hash is the variant's fold of the bytes written with the
\* table's 32-bit and 64-bit primes and the 128-bit prime
\* 0000000001000000000000000000013b of 32 digits (2^88 + 0x13b).
C7_PrimeOf32Digits ==
    hash = Fold(variant, width, FnvPrime(width), init, written)

\* C7 witness: a 128-bit accumulator whose non-zero hash has been multiplied.
C7_Witness ==
    /\ width = 128
    /\ init # ModPow2(<<>>, width)
    /\ written # <<>>

\* C8: a write of the empty byte sequence leaves the hash as it was, in every
\* state; and while only empty writes have been made the hash is the initial
\* value the constructor is to give.
C8_EmptyWriteKeepsHash ==
    /\ []((last = <<<<>>>> /\ written = <<>>) => hash = InitialValue)
    /\ [][EmptyWriteStep => hash' = hash]_vars

\* C8 witness: an empty write has just followed writes that changed the hash.
C8_Witness ==
    /\ last = <<<<>>>>
    /\ written # <<>>
    /\ hash # init

\* C9: the hash is always a W-bit value, and it is the exact result of the
\* variant's fold over the natural numbers, never reduced on the way, taken
\* modulo 2^W.
C9_ExactResultModuloTwoToW ==
    /\ IsWord(hash, width)
    /\ hash = ModPow2(ExactFold(variant, Trim(PRIME(width)), init, written), width)

\* C9 witness: the exact result does not fit W bits, from a constructor value
\* whose product with the prime already does not.
C9_Witness ==
    /\ written # <<>>
    /\ Len(NatMul(Trim(init), Trim(PRIME(width)))) > Limbs(width)
    /\ Len(ExactFold(variant, Trim(PRIME(width)), init, written)) > Limbs(width)
    /\ hash # MaxWord(width)

\* C10: a finish call leaves the hash as it was and returns what the finish
\* call before it returned when no write came between; and every value finish
\* returns is the one determined by the writes alone, whatever finish calls
\* were made before.
C10_FinishReadOnly ==
    /\ [](\A i \in DOMAIN rets : rets[i] = OneWrite)
    /\ [][FinishStep =>
            /\ hash' = hash
            /\ rets # <<>> => rets'[Len(rets')] = rets[Len(rets)]]_vars

\* C10 witness: two finish calls in a row, after writes that changed the hash.
C10_Witness ==
    /\ Len(rets) >= 2
    /\ written # <<>>
    /\ hash # init

====
